---- MODULE Spec2Model ----
(***************************************************************************)
(* A model of the node ledger (NodeInfo, pkg/controller/clusterstate/api/  *)
(* node_info.go) and of the quota manager's admission path (QuotaManager,  *)
(* quota_manager.go) of the multi-cluster-app-dispatcher.                  *)
(*                                                                         *)
(* Spec    : the ledger under any sequence of SetNode / AddTask /          *)
(*           PipelineTask / RemoveTask / UpdateTask calls.                 *)
(* SpecQM  : NewQuotaManager step by step, then any sequence of Fits and   *)
(*           Release calls while the backend changes mode and the resource *)
(*           plans change.                                                 *)
(* SpecConv: Fits and Release on an initialised quota manager, for every   *)
(*           platform and for demands at the edges of int.                 *)
(* SpecHeap: a ledger and its Clone as objects on a heap, with the         *)
(*           caller's own task objects, under AddTask / PipelineTask /     *)
(*           RemoveTask on either and changes of the caller's tasks.       *)
(***************************************************************************)
EXTENDS Integers, Sequences, FiniteSets, TLC

\* Number of ledger calls in one behaviour.
MaxCalls == 4

\* Number of steps explored on the heap of ledger objects.
MaxHeapCalls == 3

\* Longest list of resource types a tree declares.
MaxTypes == 3

\* Width of int64, and of int on a 64-bit platform, in the model.
IntBits == 16

\* Width of int on a 32-bit platform in the model.
NarrowIntBits == 12

\* Width of the significand of a float64 in the model: between the two int
\* widths, as 53 is between 32 and 64.
MantissaBits == 14

VARIABLES
    ni,         \* the NodeInfo object (all of its fields)
    subClamps,  \* which of the two documented Resource.Sub semantics the build has
    last,       \* the last completed ledger call: operation, arguments, error
    prev,       \* the NodeInfo as it was when the last call started
    pipelined,  \* whether PipelineTask has been called on this ledger
    calls       \* number of completed calls

nodeVars == <<ni, subClamps, last, prev, pipelined, calls>>

VARIABLES
    qm,              \* the QuotaManager object
    be,              \* the quota manager backend (qmbackend.Manager)
    resplanChanged,  \* the resource plan manager has a change to report
    pc,              \* where NewQuotaManager stands
    args,            \* the arguments of NewQuotaManager
    pending,         \* keys of dispatchedAWDemands the load loop has yet to visit
    initErr,         \* err and err2 of NewQuotaManager
    replayLog,       \* the Fits calls made by loadDispatchedAWs
    qlast,           \* the last completed Fits or Release call
    arch             \* the platform the quota manager is built for

qmVars == <<qm, be, resplanChanged, pc, args, pending, initErr, replayLog, qlast, arch>>

VARIABLES
    heap,    \* the NodeInfo and TaskInfo objects, by address, and who holds which
    hlast,   \* the last completed step on the heap, and the heap before it
    hcalls   \* number of completed steps on the heap

heapVars == <<heap, hlast, hcalls>>

VARIABLES
    dcall    \* a call of getQuotaTreeResourceTypesDemands: arguments, results

vars == <<ni, subClamps, last, prev, pipelined, calls,
          qm, be, resplanChanged, pc, args, pending, initErr, replayLog, qlast,
          arch, heap, hlast, hcalls, dcall>>

----------------------------------------------------------------------------
\* Resource: the resource vector with the dimensions of api.Resource.

Res(c, m, g) == [MilliCPU |-> c, Memory |-> m, GPU |-> g]

EmptyResource == Res(0, 0, 0)

\* Resource.Add: componentwise sum, always succeeds.
Add(r, rr) ==
    Res(r.MilliCPU + rr.MilliCPU, r.Memory + rr.Memory, r.GPU + rr.GPU)

ClampDim(x) == IF x < 0 THEN 0 ELSE x

\* Resource.Sub: componentwise difference.  On underflow the call signals an
\* error (which every caller in node_info.go only logs) and has applied
\* either the difference clamped at zero or the raw difference.
Sub(r, rr) ==
    IF subClamps
    THEN Res(ClampDim(r.MilliCPU - rr.MilliCPU),
             ClampDim(r.Memory - rr.Memory),
             ClampDim(r.GPU - rr.GPU))
    ELSE Res(r.MilliCPU - rr.MilliCPU, r.Memory - rr.Memory, r.GPU - rr.GPU)


----------------------------------------------------------------------------
\* Inputs.

\* The nil *v1.Node.
NilNode ==
    [Name |-> "", Allocatable |-> EmptyResource, Capacity |-> EmptyResource,
     Labels |-> {}, Unschedulable |-> FALSE, Taints |-> {}]

\* The v1.Node objects handed to NewNodeInfo and SetNode: a node, and the
\* same node after an update that shrank it and cordoned it.
Nodes ==
    { [Name |-> "n1", Allocatable |-> Res(4, 2, 1), Capacity |-> Res(5, 2, 1),
       Labels |-> {"zone=a"}, Unschedulable |-> FALSE, Taints |-> {}],
      [Name |-> "n1", Allocatable |-> Res(2, 1, 1), Capacity |-> Res(5, 2, 1),
       Labels |-> {"zone=a"}, Unschedulable |-> TRUE, Taints |-> {"NoSchedule"}] }

TaskIDs == {"ns/p1", "ns/p2"}

Statuses == {"Running", "Releasing"}

Requests == {Res(1, 1, 0), Res(3, 0, 1)}

\* Object identity. A *TaskInfo or *NodeInfo value carries in Ref the address
\* of the object it is; NewRef is the address of an object that has just been
\* allocated and is referenced from nowhere else yet.
NewRef == <<"new", "">>

\* The caller's own TaskInfo object for the pod with this key.
CallerRef(id) == <<"caller", id>>

\* The TaskInfo values callers pass in (ID is PodKey(task.Pod)).
TaskInputs ==
    { [ID |-> id, Resreq |-> r, Status |-> s, Ref |-> CallerRef(id)] :
        id \in TaskIDs, r \in Requests, s \in Statuses }

NoTask == [ID |-> "", Resreq |-> EmptyResource, Status |-> "", Ref |-> NewRef]

\* TaskInfo.Clone: a new object with a copy of the fields.
CloneTask(task) ==
    [ID |-> task.ID, Resreq |-> task.Resreq, Status |-> task.Status,
     Ref |-> NewRef]

NoTasks == [k \in {} |-> NoTask]

----------------------------------------------------------------------------
\* NodeInfo.

\* NewNodeInfo(node).
NewNodeInfo(node) ==
    IF node = NilNode
    THEN [Name |-> "", Node |-> NilNode,
          Releasing |-> EmptyResource, Idle |-> EmptyResource,
          Used |-> EmptyResource,
          Allocatable |-> EmptyResource, Capability |-> EmptyResource,
          Labels |-> {}, Unschedulable |-> FALSE, Taints |-> {},
          Tasks |-> NoTasks, Ref |-> NewRef]
    ELSE [Name |-> node.Name, Node |-> node,
          Releasing |-> EmptyResource, Idle |-> node.Allocatable,
          Used |-> EmptyResource,
          Allocatable |-> node.Allocatable, Capability |-> node.Capacity,
          Labels |-> node.Labels, Unschedulable |-> node.Unschedulable,
          Taints |-> node.Taints,
          Tasks |-> NoTasks, Ref |-> NewRef]

\* ni.Tasks[key] = ti
PutTask(tasks, key, ti) ==
    [k \in (DOMAIN tasks) \cup {key} |-> IF k = key THEN ti ELSE tasks[k]]

\* delete(ni.Tasks, key)
DeleteTask(tasks, key) ==
    [k \in (DOMAIN tasks) \ {key} |-> tasks[k]]

\* The orders in which `for _, task := range ni.Tasks` may visit the tasks.
TaskOrders(tasks) ==
    { o \in [1..Cardinality(DOMAIN tasks) -> DOMAIN tasks] :
        \A i, j \in DOMAIN o : i # j => o[i] # o[j] }

\* One iteration of the loop of SetNode over the already-tracked tasks.
SetNodeTask(n, task) ==
    [n EXCEPT
       !.Releasing = IF task.Status = "Releasing"
                     THEN Add(n.Releasing, task.Resreq) ELSE n.Releasing,
       !.Idle = Sub(n.Idle, task.Resreq),
       !.Used = Add(n.Used, task.Resreq)]

RECURSIVE SetNodeLoop(_, _, _)
SetNodeLoop(n, order, i) ==
    IF i > Len(order) THEN n
    ELSE SetNodeLoop(SetNodeTask(n, n.Tasks[order[i]]), order, i + 1)

\* SetNode without the loop over the tracked tasks: a first binding only
\* takes the node's allocatable as Idle.
SetNodeSkipsTasks(n, node, order) ==
    [n EXCEPT
       !.Idle = IF n.Node = NilNode THEN node.Allocatable ELSE n.Idle,
       !.Name = node.Name,
       !.Node = node,
       !.Allocatable = node.Allocatable,
       !.Capability = node.Capacity,
       !.Labels = node.Labels,
       !.Unschedulable = node.Unschedulable,
       !.Taints = node.Taints]

\* SetNode without the test for ni.Node == nil: the tasks are accounted
\* again at every call.
SetNodeAlwaysReconciles(n, node, order) ==
    [SetNodeLoop([n EXCEPT !.Idle = node.Allocatable], order, 1) EXCEPT
       !.Name = node.Name,
       !.Node = node,
       !.Allocatable = node.Allocatable,
       !.Capability = node.Capacity,
       !.Labels = node.Labels,
       !.Unschedulable = node.Unschedulable,
       !.Taints = node.Taints]

\* NodeInfo.SetNode(node), visiting the tasks in `order`.
SetNode(n, node, order) ==
    LET reconciled ==
          IF n.Node = NilNode
          THEN SetNodeLoop([n EXCEPT !.Idle = node.Allocatable], order, 1)
          ELSE n
    IN [reconciled EXCEPT
          !.Name = node.Name,
          !.Node = node,
          !.Allocatable = node.Allocatable,
          !.Capability = node.Capacity,
          !.Labels = node.Labels,
          !.Unschedulable = node.Unschedulable,
          !.Taints = node.Taints]

\* PipelineTask with the accounting of AddTask (it takes the request out of
\* Idle as well).
PipelineTaskTakesIdle(n, task) ==
    IF task.ID \in DOMAIN n.Tasks
    THEN [ni |-> n, err |-> "DuplicateTask"]
    ELSE LET ti == CloneTask(task)
             pooled == IF n.Node # NilNode
                       THEN [n EXCEPT !.Releasing = Sub(n.Releasing, ti.Resreq),
                                      !.Idle = Sub(n.Idle, ti.Resreq),
                                      !.Used = Add(n.Used, ti.Resreq)]
                       ELSE n
         IN [ni |-> [pooled EXCEPT !.Tasks = PutTask(n.Tasks, task.ID, ti)],
             err |-> "nil"]

\* PipelineTask without the check for a node: the pools of an unbound
\* ledger are adjusted too.
PipelineTaskIgnoresNode(n, task) ==
    IF task.ID \in DOMAIN n.Tasks
    THEN [ni |-> n, err |-> "DuplicateTask"]
    ELSE [ni |-> [n EXCEPT !.Releasing = Sub(n.Releasing, task.Resreq),
                           !.Used = Add(n.Used, task.Resreq),
                           !.Tasks = PutTask(n.Tasks, task.ID, CloneTask(task))],
          err |-> "nil"]

\* NodeInfo.PipelineTask(task): the ledger afterwards and the error returned.
PipelineTask(n, task) ==
    IF task.ID \in DOMAIN n.Tasks
    THEN [ni |-> n, err |-> "DuplicateTask"]
    ELSE LET ti == CloneTask(task)
             pooled == IF n.Node # NilNode
                       THEN [n EXCEPT !.Releasing = Sub(n.Releasing, ti.Resreq),
                                      !.Used = Add(n.Used, ti.Resreq)]
                       ELSE n
         IN [ni |-> [pooled EXCEPT !.Tasks = PutTask(n.Tasks, task.ID, ti)],
             err |-> "nil"]

\* AddTask without the `found` check: a task already present is accounted
\* again and its record overwritten.
AddTaskNoFoundCheck(n, task) ==
    LET ti == CloneTask(task)
        pooled == IF n.Node # NilNode
                  THEN [n EXCEPT
                          !.Releasing = IF ti.Status = "Releasing"
                                        THEN Add(n.Releasing, ti.Resreq)
                                        ELSE n.Releasing,
                          !.Idle = Sub(n.Idle, ti.Resreq),
                          !.Used = Add(n.Used, ti.Resreq)]
                  ELSE n
    IN [ni |-> [pooled EXCEPT !.Tasks = PutTask(n.Tasks, task.ID, ti)],
        err |-> "nil"]

\* AddTask without task.Clone(): the ledger keeps the caller's own object.
AddTaskStoresCallerTask(n, task) ==
    IF task.ID \in DOMAIN n.Tasks
    THEN [ni |-> n, err |-> "DuplicateTask"]
    ELSE LET pooled == IF n.Node # NilNode
                       THEN [n EXCEPT
                               !.Releasing = IF task.Status = "Releasing"
                                             THEN Add(n.Releasing, task.Resreq)
                                             ELSE n.Releasing,
                               !.Idle = Sub(n.Idle, task.Resreq),
                               !.Used = Add(n.Used, task.Resreq)]
                       ELSE n
         IN [ni |-> [pooled EXCEPT !.Tasks = PutTask(n.Tasks, task.ID, task)],
             err |-> "nil"]

\* NodeInfo.AddTask(task).
AddTask(n, task) ==
    IF task.ID \in DOMAIN n.Tasks
    THEN [ni |-> n, err |-> "DuplicateTask"]
    ELSE LET ti == CloneTask(task)
             pooled == IF n.Node # NilNode
                       THEN [n EXCEPT
                               !.Releasing = IF ti.Status = "Releasing"
                                             THEN Add(n.Releasing, ti.Resreq)
                                             ELSE n.Releasing,
                               !.Idle = Sub(n.Idle, ti.Resreq),
                               !.Used = Add(n.Used, ti.Resreq)]
                       ELSE n
         IN [ni |-> [pooled EXCEPT !.Tasks = PutTask(n.Tasks, task.ID, ti)],
             err |-> "nil"]

\* RemoveTask that, for a key it does not find, releases the request of the
\* record the caller passed.
RemoveTaskUnknownReleases(n, ti) ==
    LET task == IF ti.ID \in DOMAIN n.Tasks THEN n.Tasks[ti.ID] ELSE ti
        pooled == IF n.Node # NilNode
                  THEN [n EXCEPT
                          !.Releasing = IF task.Status = "Releasing"
                                        THEN Sub(n.Releasing, task.Resreq)
                                        ELSE n.Releasing,
                          !.Idle = Add(n.Idle, task.Resreq),
                          !.Used = Sub(n.Used, task.Resreq)]
                  ELSE n
    IN [ni |-> [pooled EXCEPT !.Tasks = DeleteTask(n.Tasks, ti.ID)],
        err |-> "nil"]

\* RemoveTask without the branch on the stored status: the request of a
\* releasing task stays in Releasing.
RemoveTaskKeepsReleasing(n, ti) ==
    IF ti.ID \notin DOMAIN n.Tasks
    THEN [ni |-> n, err |-> "TaskNotFound"]
    ELSE LET task == n.Tasks[ti.ID]
             pooled == IF n.Node # NilNode
                       THEN [n EXCEPT
                               !.Idle = Add(n.Idle, task.Resreq),
                               !.Used = Sub(n.Used, task.Resreq)]
                       ELSE n
         IN [ni |-> [pooled EXCEPT !.Tasks = DeleteTask(n.Tasks, ti.ID)],
             err |-> "nil"]

\* RemoveTask adjusting the pools by the record the caller passes instead
\* of the stored one.
RemoveTaskByCallerRecord(n, ti) ==
    IF ti.ID \notin DOMAIN n.Tasks
    THEN [ni |-> n, err |-> "TaskNotFound"]
    ELSE LET pooled == IF n.Node # NilNode
                       THEN [n EXCEPT
                               !.Releasing = IF ti.Status = "Releasing"
                                             THEN Sub(n.Releasing, ti.Resreq)
                                             ELSE n.Releasing,
                               !.Idle = Add(n.Idle, ti.Resreq),
                               !.Used = Sub(n.Used, ti.Resreq)]
                       ELSE n
         IN [ni |-> [pooled EXCEPT !.Tasks = DeleteTask(n.Tasks, ti.ID)],
             err |-> "nil"]

\* NodeInfo.RemoveTask(ti): only ti's key is read; the pools are adjusted by
\* the stored record.
RemoveTask(n, ti) ==
    IF ti.ID \notin DOMAIN n.Tasks
    THEN [ni |-> n, err |-> "TaskNotFound"]
    ELSE LET task == n.Tasks[ti.ID]
             pooled == IF n.Node # NilNode
                       THEN [n EXCEPT
                               !.Releasing = IF task.Status = "Releasing"
                                             THEN Sub(n.Releasing, task.Resreq)
                                             ELSE n.Releasing,
                               !.Idle = Add(n.Idle, task.Resreq),
                               !.Used = Sub(n.Used, task.Resreq)]
                       ELSE n
         IN [ni |-> [pooled EXCEPT !.Tasks = DeleteTask(n.Tasks, ti.ID)],
             err |-> "nil"]

\* UpdateTask that does not look at the error of RemoveTask: a task the
\* ledger does not track is added.
UpdateTaskAddsMissing(n, ti) == AddTask(RemoveTask(n, ti).ni, ti)

\* NodeInfo.UpdateTask(ti).
UpdateTask(n, ti) ==
    LET removed == RemoveTask(n, ti)
    IN IF removed.err # "nil" THEN removed ELSE AddTask(removed.ni, ti)

\* The loop of Clone: res.AddTask(p) for the tasks of `tasks` in `order`.
RECURSIVE CloneLoop(_, _, _, _)
CloneLoop(res, tasks, order, i) ==
    IF i > Len(order) THEN res
    ELSE CloneLoop(AddTask(res, tasks[order[i]]).ni, tasks, order, i + 1)

\* Clone as a shallow copy: the ledger handed back is the one it was called
\* on.
CloneShallow(n, order) == n

\* NodeInfo.Clone(), visiting the tasks in `order`.
Clone(n, order) == CloneLoop(NewNodeInfo(n.Node), n.Tasks, order, 1)

----------------------------------------------------------------------------
\* QuotaManager: inputs and collaborators.

QuotaManagerForestName == "MCAD-CONTROLLER-FOREST"

Modes == {"Normal", "Maintenance"}

\* What GetTreeNames can return once the forest has been built from the
\* resource plans.
TreeNameChoices == {<<>>, <<"A">>, <<"A", "B">>}

\* The AppWrappers handed to Fits and Release.  Labels map label keys to
\* values; a key that is a tree name designates a group of that tree.
AWInputs ==
    { [Namespace |-> "ns", Name |-> "j1", Priority |-> 1, CanRun |-> TRUE,
       Labels |-> [k \in {"A", "B", "app"} |-> IF k = "app" THEN "x" ELSE "g" \o k]],
      [Namespace |-> "ns", Name |-> "j2", Priority |-> 0, CanRun |-> TRUE,
       Labels |-> [k \in {"A"} |-> "g" \o k]],
      [Namespace |-> "", Name |-> "j3", Priority |-> 0, CanRun |-> TRUE,
       Labels |-> [k \in {} |-> ""]],
      [Namespace |-> "ns", Name |-> "j4", Priority |-> 0, CanRun |-> TRUE,
       Labels |-> [k \in {} |-> ""]] }

NoAW ==
    [Namespace |-> "", Name |-> "", Priority |-> 0, CanRun |-> FALSE,
     Labels |-> [k \in {} |-> ""]]

\* 2^n.
RECURSIVE Pow2(_)
Pow2(n) == IF n = 0 THEN 1 ELSE 2 * Pow2(n - 1)

\* The platforms: one with a 32-bit int and two with a 64-bit int.
Archs == {"386", "amd64", "arm64"}

\* MaxInt = int(^uint(0) >> 1) on platform a.
MaxInt(a) == Pow2((IF a = "386" THEN NarrowIntBits ELSE IntBits) - 1) - 1

\* awResDemands: MilliCPU (float64), Memory in bytes (float64), GPU (int64).
\* An everyday demand; a MilliCPU of one more than the largest 64-bit int;
\* the next float64 above it; a GPU of one more than the largest 32-bit int.
DemandInputs ==
    { Res(2000, 2500000, 1),
      Res(Pow2(IntBits - 1), 2500000, 1),
      Res(Pow2(IntBits - 1) + Pow2(IntBits - MantissaBits), 2500000, 1),
      Res(2000, 2500000, Pow2(NarrowIntBits - 1)) }

\* The number of bits of n >= 0.
RECURSIVE BitLen(_)
BitLen(n) == IF n = 0 THEN 0 ELSE 1 + BitLen(n \div 2)

\* n >= 0 rounded to a multiple of unit, ties to the even multiple.
RoundToUnit(n, unit) ==
    IF 2 * (n % unit) > unit \/ (2 * (n % unit) = unit /\ (n \div unit) % 2 = 1)
    THEN (n \div unit + 1) * unit
    ELSE (n \div unit) * unit

\* float64(n) for an integer n >= 0: n rounded to MantissaBits significant
\* bits.
Float64(n) ==
    IF BitLen(n) <= MantissaBits THEN n
    ELSE RoundToUnit(n, Pow2(BitLen(n) - MantissaBits))

\* int(f) for a float64 f >= 0 without a fraction: f when an int holds it;
\* otherwise the result depends on the platform (the smallest int on amd64
\* and 386, the largest on arm64).
FloatToInt(a, f) ==
    IF f <= MaxInt(a) THEN f
    ELSE IF a = "arm64" THEN MaxInt(a)
    ELSE 0 - MaxInt(a) - 1

\* Resource type names are sequences of characters.
UpperToLower == [C |-> "c", P |-> "p", U |-> "u", G |-> "g", M |-> "m"]

\* strings.ToLower.
ToLower(s) ==
    [i \in DOMAIN s |->
        IF s[i] \in DOMAIN UpperToLower THEN UpperToLower[s[i]] ELSE s[i]]

\* strings.Contains.
Contains(s, substr) ==
    \E i \in 0..(Len(s) - Len(substr)) : SubSeq(s, i + 1, i + Len(substr)) = substr

\* GetTreeCache(treeName).GetResourceNames(): the resource types a tree
\* declares.
TreeResourceNames(treeName) ==
    IF treeName = "A" THEN << <<"C", "P", "U">>, <<"m", "e", "m", "o", "r", "y">> >>
    ELSE IF treeName = "B" THEN << <<"g", "p", "u">>, <<"p", "o", "d", "s">> >>
    ELSE <<>>

\* util.CreateId: "<namespace>/<name>", empty when either part is empty.
CreateId(ns, n) == IF ns # "" /\ n # "" THEN ns \o "/" \o n ELSE ""

NameParts == {"", "ns", "j1", "j2", "j3", "j4", "gone"}

\* util.ParseId: the namespace and name of an id CreateId made, two empty
\* strings for anything else.
ParseId(id) ==
    IF \E ns, n \in NameParts : ns # "" /\ n # "" /\ CreateId(ns, n) = id
    THEN CHOOSE p \in NameParts \X NameParts :
           p[1] # "" /\ p[2] # "" /\ CreateId(p[1], p[2]) = id
    ELSE <<"", "">>

\* The AppWrappers the lister's cache holds, by id.
Listed == { aw \in AWInputs : aw.Namespace # "" }

\* appwrapperLister.AppWrappers(ns).Get(name): the objects found (none: an
\* error).
ListerGet(ns, n) == { aw \in Listed : aw.Namespace = ns /\ aw.Name = n }

\* The preempted ids an allocation response may carry.
PreemptIdChoices ==
    {<<>>, <<"ns/j2">>, <<"bad", "ns/j2", "ns/gone", "ns/j1">>}

\* The outcomes of AllocateForest: (response, err).  With err == nil a
\* response is present.
AllocOutcomes ==
    { [err |-> TRUE, response |-> r.response, allocated |-> FALSE,
       message |-> r.message, preemptedIds |-> <<>>] :
        r \in { [response |-> FALSE, message |-> ""],
                [response |-> TRUE, message |-> ""],
                [response |-> TRUE, message |-> "allocation failed"] } }
    \cup
    { [err |-> FALSE, response |-> TRUE, allocated |-> r.allocated,
       message |-> r.message, preemptedIds |-> r.preemptedIds] :
        r \in [allocated : BOOLEAN, message : {""}, preemptedIds : PreemptIdChoices]
              \cup [allocated : {FALSE}, message : {"quota exceeded"},
                    preemptedIds : {<<>>}] }

NoAlloc ==
    [err |-> FALSE, response |-> FALSE, allocated |-> FALSE,
     message |-> "", preemptedIds |-> <<>>]

\* The outcomes of RemoveConsumer: (success, err).
RemoveOutcomes ==
    { [success |-> TRUE, err |-> FALSE],
      [success |-> FALSE, err |-> FALSE],
      [success |-> FALSE, err |-> TRUE] }

NoRemove == [success |-> FALSE, err |-> FALSE]

\* What the collaborators answer during one Fits call.  The error of the
\* UpdateForest of a refresh is only logged by Fits and is left out.
FitsEnvs ==
    [newTrees : TreeNameChoices,     \* GetTreeNames after an UpdateForest
     consumerErr : BOOLEAN,          \* NewConsumerInfo returned an error
     alloc : AllocOutcomes \cup {NoAlloc}]

\* What the backend answers during one Release call.
ReleaseEnvs == [dealloc : BOOLEAN, remove : RemoveOutcomes]

\* A message: a fixed text and the names formatted into it.
Msg(text, names) == [text |-> text, names |-> names]

NoMsg == Msg("", <<>>)

NoRequest == [ID |-> "", Trees |-> [k \in {} |-> ""]]

NoLog == [k \in {} |-> <<>>]

\* The elements of a sequence.
Range(seq) == { seq[i] : i \in DOMAIN seq }

\* The subsequence of the elements that satisfy Keep, in order.
RECURSIVE SelectIn(_, _)
SelectIn(seq, keep) ==
    IF seq = <<>> THEN <<>>
    ELSE IF Head(seq) \in keep
         THEN <<Head(seq)>> \o SelectIn(Tail(seq), keep)
         ELSE SelectIn(Tail(seq), keep)

----------------------------------------------------------------------------
\* QuotaManager: operations.

\* isValidQuota(quotaGroup, qmTreeIDs).
isValidQuota(groupContext, qmTreeIDs) == groupContext \in Range(qmTreeIDs)

\* getQuotaDesignation with an error that lists every known tree instead of
\* the ones without a designation.
getQuotaDesignationNamesAllTrees(aw, qmTreeIDs) ==
    IF Len(qmTreeIDs) <= 0
    THEN [groups |-> [k \in {} |-> ""], err |-> NoMsg]
    ELSE LET valid == { k \in DOMAIN aw.Labels : isValidQuota(k, qmTreeIDs) }
         IN IF Cardinality(valid) < Len(qmTreeIDs)
            THEN [groups |-> [k \in valid |-> aw.Labels[k]],
                  err |-> Msg("Missing required quota designation: ", qmTreeIDs)]
            ELSE [groups |-> [k \in valid |-> aw.Labels[k]], err |-> NoMsg]

\* getQuotaDesignation(aw): the groups found (tree name -> group id) and the
\* error, if any.  The error's names are the known trees the job has no
\* label for, in GetTreeNames order.
getQuotaDesignation(aw, qmTreeIDs) ==
    IF Len(qmTreeIDs) <= 0
    THEN [groups |-> [k \in {} |-> ""], err |-> NoMsg]
    ELSE LET valid == { k \in DOMAIN aw.Labels : isValidQuota(k, qmTreeIDs) }
             groups == [k \in valid |-> aw.Labels[k]]
         IN IF Cardinality(valid) < Len(qmTreeIDs)
            THEN [groups |-> groups,
                  err |-> Msg("Missing required quota designation: ",
                              SelectIn(qmTreeIDs, Range(qmTreeIDs) \ valid))]
            ELSE [groups |-> groups, err |-> NoMsg]

\* convertInt64Demand(int64Demand) on platform a: the demand as an int and
\* whether an error is returned.
convertInt64Demand(a, int64Demand) ==
    IF int64Demand > MaxInt(a)
    THEN [demand |-> MaxInt(a), err |-> TRUE]
    ELSE [demand |-> int64Demand, err |-> FALSE]

\* convertFloat64Demand(floatDemand) on platform a: MaxInt is compared as a
\* float64.
convertFloat64Demand(a, floatDemand) ==
    IF floatDemand > Float64(MaxInt(a))
    THEN [demand |-> MaxInt(a), err |-> TRUE]
    ELSE [demand |-> FloatToInt(a, floatDemand), err |-> FALSE]

\* A diagnostic of getQuotaTreeResourceTypesDemands.
Diagnostic(kind, types) == [kind |-> kind, types |-> types]

\* One rule of the loop of getQuotaTreeResourceTypesDemands: the converted
\* demand when the resource type's name matches, nothing otherwise.
DemandRule(matches, converted) == IF matches THEN <<converted>> ELSE <<>>

\* The three rules (CPU, memory, GPU) applied in turn to a lower-cased
\* resource type name.  The fraction of Memory/1000000 is cut before the
\* conversion rather than by it.
DemandsOfName(a, name, awResDemands) ==
    DemandRule(Contains(name, <<"c", "p", "u">>),
               convertFloat64Demand(a, awResDemands.MilliCPU))
    \o DemandRule(Contains(name, <<"m", "e", "m", "o", "r", "y">>),
                  convertFloat64Demand(a, awResDemands.Memory \div 1000000))
    \o DemandRule(Contains(name, <<"g", "p", "u">>),
                  convertInt64Demand(a, awResDemands.GPU))

\* One iteration of the loop of getQuotaTreeResourceTypesDemands: the
\* converted demand of every rule that matches, in the order of the rules.
DemandsOfType(a, awResDemands, treeResourceType) ==
    DemandsOfName(a, ToLower(treeResourceType), awResDemands)

\* What one iteration adds in front of what the later iterations add: the
\* entries of processedResourceTypes and the conversion errors chained into
\* err.
DemandsStep(treeResourceType, matched, rest) ==
    [processed |-> [k \in 1..Len(matched) |-> treeResourceType] \o rest.processed,
     err |-> [k \in 1..Cardinality({ x \in DOMAIN matched : matched[x].err }) |->
                 Diagnostic("overflow", <<treeResourceType>>)]
             \o rest.err]

\* The loop of getQuotaTreeResourceTypesDemands from its i-th iteration on.
RECURSIVE DemandsLoop(_, _, _, _)
DemandsLoop(a, awResDemands, treeToResourceTypes, i) ==
    IF i > Len(treeToResourceTypes) THEN [processed |-> <<>>, err |-> <<>>]
    ELSE DemandsStep(treeToResourceTypes[i],
                     DemandsOfType(a, awResDemands, treeToResourceTypes[i]),
                     DemandsLoop(a, awResDemands, treeToResourceTypes, i + 1))

\* The return values of getQuotaTreeResourceTypesDemands once the loop is
\* done: the demands by resource type (the last matching rule's assignment
\* stays) and the diagnostics of the returned error.
DemandsResult(a, awResDemands, treeToResourceTypes, looped) ==
    [demands |-> [t \in { tt \in Range(treeToResourceTypes) :
                            DemandsOfType(a, awResDemands, tt) # <<>> } |->
                    DemandsOfType(a, awResDemands, t)[Len(DemandsOfType(a, awResDemands, t))].demand],
     err |-> IF Len(looped.processed) < Len(treeToResourceTypes)
             THEN Append(looped.err, Diagnostic("mismatch", looped.processed))
             ELSE looped.err]

\* getQuotaTreeResourceTypesDemands(awResDemands, treeToResourceTypes) on
\* platform a.
getQuotaTreeResourceTypesDemands(a, awResDemands, treeToResourceTypes) ==
    DemandsResult(a, awResDemands, treeToResourceTypes,
                  DemandsLoop(a, awResDemands, treeToResourceTypes, 1))

\* getQuotaTreeResourceTypesDemands called on its own, for any list of
\* resource types a tree may declare.

\* Resource type names: "CPU", "memory", "gpu", "pods", and "gpu-memory",
\* as in nvidia.com/gpu-memory.
TypeNames ==
    { <<"C", "P", "U">>, <<"m", "e", "m", "o", "r", "y">>, <<"g", "p", "u">>,
      <<"p", "o", "d", "s">>,
      <<"g", "p", "u", "-", "m", "e", "m", "o", "r", "y">> }

\* The lists of resource types of at most MaxTypes names.
TypeLists == UNION { [1..n -> TypeNames] : n \in 0..MaxTypes }

NoDemands == [demands |-> <<>>, err |-> <<>>]

DemandsIdle ==
    dcall = [awResDemands |-> EmptyResource, treeToResourceTypes |-> <<>>,
             returned |-> FALSE, result |-> NoDemands]

\* The call returns.
DemandsReturn ==
    /\ ~dcall.returned
    /\ dcall' = [dcall EXCEPT
                   !.returned = TRUE,
                   !.result = getQuotaTreeResourceTypesDemands(
                                  arch, dcall.awResDemands, dcall.treeToResourceTypes)]
    /\ UNCHANGED <<nodeVars, qmVars, heapVars>>

NextDemands == DemandsReturn

\* The call of getQuotaTreeResourceTypesDemands in buildRequest, for every
\* platform, demand and tree: demands and diagnostics.
TreeDemands ==
    [a \in Archs |->
        [d \in DemandInputs |->
            [k \in {"A", "B"} |->
                getQuotaTreeResourceTypesDemands(a, d, TreeResourceNames(k))]]]

\* buildRequest once the id, the designation and the demands are known.
BuiltRequest(aw, awId, designation, demands, consumerErr) ==
    IF Len(awId) <= 0
    THEN [consumer |-> NoRequest, log |-> NoLog,
          err |-> Msg("[buildRequest] Request failed due to invalid AppWrapper due to empty namespace or name",
                      <<aw.Namespace, aw.Name>>)]
    ELSE IF designation.err # NoMsg
    THEN [consumer |-> NoRequest, log |-> NoLog, err |-> designation.err]
    ELSE [consumer |-> IF consumerErr THEN NoRequest
                       ELSE [ID |-> awId,
                             Trees |-> [k \in DOMAIN designation.groups |->
                                          [GroupID |-> designation.groups[k],
                                           Request |-> demands[k].demands,
                                           Priority |-> aw.Priority,
                                           UnPreemptable |-> ~qm.preemptionEnabled]]],
          log |-> [k \in DOMAIN designation.groups |-> demands[k].err],
          err |-> IF consumerErr THEN Msg("NewConsumerInfo error", <<>>) ELSE NoMsg]

\* buildRequest(aw, awResDemands): the consumer, the error, if any, and the
\* errors it logged, by tree.
buildRequest(aw, awResDemands, qmTreeIDs, consumerErr) ==
    BuiltRequest(aw, CreateId(aw.Namespace, aw.Name),
                 getQuotaDesignation(aw, qmTreeIDs), TreeDemands[arch][awResDemands],
                 consumerErr)

\* getAppWrappers giving up at the first id that does not parse or resolve
\* (a return where the code has continue).
RECURSIVE getAppWrappersStopsAtBadId(_)
getAppWrappersStopsAtBadId(preemptIds) ==
    IF Len(preemptIds) <= 0 THEN <<>>
    ELSE LET p == ParseId(Head(preemptIds))
             found == ListerGet(p[1], p[2])
         IN IF Len(p[1]) <= 0 \/ Len(p[2]) <= 0 THEN <<>>
            ELSE IF found = {} THEN <<>>
            ELSE <<CHOOSE aw \in found : TRUE>>
                 \o getAppWrappersStopsAtBadId(Tail(preemptIds))

\* getAppWrappers(preemptIds): nil (the empty sequence) or the AppWrappers
\* the ids resolve to.
RECURSIVE getAppWrappers(_)
getAppWrappers(preemptIds) ==
    IF Len(preemptIds) <= 0 THEN <<>>
    ELSE LET p == ParseId(Head(preemptIds))
             found == ListerGet(p[1], p[2])
             rest == getAppWrappers(Tail(preemptIds))
         IN IF Len(p[1]) <= 0 \/ Len(p[2]) <= 0 THEN rest
            ELSE IF found = {} THEN rest
            ELSE <<CHOOSE aw \in found : TRUE>> \o rest

\* The result of a Fits or Release call: what it returned, the backend and
\* resource plan manager calls it made (trace), and the state it left.
Outcome(path, doesFit, preemptIds, msg, trace, backend, changed, consumer, alloc, log) ==
    [path |-> path, doesFit |-> doesFit, preemptIds |-> preemptIds, msg |-> msg,
     trace |-> trace, be |-> backend, resplanChanged |-> changed,
     consumer |-> consumer, alloc |-> alloc, log |-> log]

\* The checks Fits makes before anything else, without the nil check: a
\* QuotaManager without a backend is treated like one with a backend.
FitsGuardNoNilCheck ==
    IF be.mode = "Maintenance" /\ qm.initializationDone
    THEN "maintenance"
    ELSE "proceed"

\* The checks Fits makes before anything else, with a maintenance gate that
\* does not look at initializationDone.
FitsGuardIgnoresInit ==
    IF qm.quotaManagerBackend = "nil" THEN "noBackend"
    ELSE IF be.mode = "Maintenance" THEN "maintenance"
    ELSE "proceed"

\* The checks Fits makes before anything else: is there a backend, and is
\* it in maintenance mode after the initialization.
FitsGuard ==
    IF qm.quotaManagerBackend = "nil" THEN "noBackend"
    ELSE IF be.mode = "Maintenance" /\ qm.initializationDone THEN "maintenance"
    ELSE "proceed"

\* A decision that assumes success when the backend returned an error.
FitsDecisionOpenOnError(alloc) == alloc.err \/ alloc.allocated

\* doesFit after AllocateForest: false on an error, the response's
\* IsAllocated otherwise.
FitsDecision(alloc) == IF alloc.err THEN FALSE ELSE alloc.allocated

\* Fits taking the consumer out of the backend again when the job is
\* denied.
FitsBuiltRollsBack(env, refreshed, trace, built) ==
    IF built.err # NoMsg
    THEN Outcome("buildFailed", FALSE, <<>>, built.err,
                 trace, refreshed, FALSE, NoRequest, NoAlloc, built.log)
    ELSE IF env.alloc.err
    THEN Outcome("allocError", FitsDecision(env.alloc), <<>>,
                 IF env.alloc.response /\ Len(env.alloc.message) > 0
                 THEN Msg(env.alloc.message, <<>>)
                 ELSE Msg("AllocateForest error", <<>>),
                 trace \o <<"AddConsumer", "AllocateForest", "RemoveConsumer">>,
                 [refreshed EXCEPT !.consumers = @ \ {built.consumer.ID}],
                 FALSE, built.consumer, env.alloc, built.log)
    ELSE Outcome("allocResponse", FitsDecision(env.alloc),
                 getAppWrappers(env.alloc.preemptedIds),
                 Msg(env.alloc.message, <<>>),
                 trace \o <<"AddConsumer", "AllocateForest">>,
                 [refreshed EXCEPT
                    !.consumers = IF FitsDecision(env.alloc)
                                  THEN @ \cup {built.consumer.ID}
                                  ELSE @ \ {built.consumer.ID}],
                 FALSE, built.consumer, env.alloc, built.log)

\* Fits from the return of buildRequest on.
FitsBuilt(env, refreshed, trace, built) ==
    IF built.err # NoMsg
    THEN Outcome("buildFailed", FALSE, <<>>, built.err,
                 trace, refreshed, FALSE, NoRequest, NoAlloc, built.log)
    ELSE IF env.alloc.err
    THEN Outcome("allocError", FitsDecision(env.alloc), <<>>,
                 IF env.alloc.response /\ Len(env.alloc.message) > 0
                 THEN Msg(env.alloc.message, <<>>)
                 ELSE Msg("AllocateForest error", <<>>),
                 trace \o <<"AddConsumer", "AllocateForest">>,
                 [refreshed EXCEPT !.consumers = @ \cup {built.consumer.ID}],
                 FALSE, built.consumer, env.alloc, built.log)
    ELSE Outcome("allocResponse", FitsDecision(env.alloc),
                 getAppWrappers(env.alloc.preemptedIds),
                 Msg(env.alloc.message, <<>>),
                 trace \o <<"AddConsumer", "AllocateForest">>,
                 [refreshed EXCEPT !.consumers = @ \cup {built.consumer.ID}],
                 FALSE, built.consumer, env.alloc, built.log)

\* Fits from the refresh of the forest on: refreshed is the backend after
\* the refresh, if there was one.
FitsRefreshed(aw, awResDemands, env, refreshed) ==
    FitsBuilt(env, refreshed,
              (IF resplanChanged
               THEN <<"GetMode", "IsResplanChanged",
                      "LoadResourcePlansIntoBackend", "UpdateForest">>
               ELSE <<"GetMode", "IsResplanChanged">>)
              \o (IF Len(CreateId(aw.Namespace, aw.Name)) <= 0
                  THEN <<>>
                  ELSE <<"GetTreeNames">>),
              buildRequest(aw, awResDemands, refreshed.treeNames, env.consumerErr))

\* QuotaManager.Fits(aw, awResDemands, proposedPreemptions); the last
\* argument is never read.
Fits(aw, awResDemands, env) ==
    IF FitsGuard = "noBackend"
    THEN Outcome("noBackend", FALSE, <<>>,
                 Msg("No quota manager backend exists", <<>>),
                 <<>>, be, resplanChanged, NoRequest, NoAlloc, NoLog)
    ELSE IF FitsGuard = "maintenance"
    THEN Outcome("maintenance", FALSE, <<>>,
                 Msg("Quota Manager backend in maintenance mode", <<>>),
                 <<"GetMode">>, be, resplanChanged, NoRequest, NoAlloc, NoLog)
    ELSE FitsRefreshed(aw, awResDemands, env,
                       IF resplanChanged
                       THEN [be EXCEPT !.treeNames = env.newTrees]
                       ELSE be)

\* The result of a Release call.
Released(path, released, trace, backend, env) ==
    [path |-> path, released |-> released, trace |-> trace, be |-> backend,
     dealloc |-> env.dealloc, remove |-> env.remove]

\* The checks of Release with the maintenance gate of Fits added.
ReleaseGuardGatedByMode(awId) ==
    IF qm.quotaManagerBackend = "nil" THEN "noBackend"
    ELSE IF be.mode = "Maintenance" /\ qm.initializationDone THEN "maintenance"
    ELSE IF Len(awId) <= 0 THEN "invalidId"
    ELSE "proceed"

\* The checks Release makes before it calls the backend.
ReleaseGuard(awId) ==
    IF qm.quotaManagerBackend = "nil" THEN "noBackend"
    ELSE IF Len(awId) <= 0 THEN "invalidId"
    ELSE "proceed"

\* A return value that reports the deallocation and the removal together.
ReleaseReturnAndsRemoval(dealloc, remove) == dealloc /\ remove.success

\* What Release returns once both backend calls are made: released, the
\* result of DeAllocateForest.
ReleaseReturn(dealloc, remove) == dealloc

\* QuotaManager.Release(aw).
Release(aw, env) ==
    LET awId == CreateId(aw.Namespace, aw.Name)
        removed == [be EXCEPT
                      !.consumers = IF env.remove.success THEN @ \ {awId} ELSE @]
    IN IF ReleaseGuard(awId) # "proceed"
       THEN Released(ReleaseGuard(awId), FALSE, <<>>, be, env)
       ELSE Released("released", ReleaseReturn(env.dealloc, env.remove),
                     <<"DeAllocateForest", "RemoveConsumer">>, removed, env)

----------------------------------------------------------------------------
\* The ledger as a state machine: one action per method call.

Call(op, task, node, err) == [op |-> op, task |-> task, node |-> node, err |-> err]

InitNode ==
    /\ \E node \in Nodes \cup {NilNode} : ni = NewNodeInfo(node)
    /\ subClamps \in BOOLEAN
    /\ last = Call("NewNodeInfo", NoTask, NilNode, "nil")
    /\ prev = ni
    /\ pipelined = FALSE
    /\ calls = 0

Completed(result, call) ==
    /\ ni' = result
    /\ last' = call
    /\ prev' = ni
    /\ calls' = calls + 1
    /\ UNCHANGED subClamps

DoSetNode ==
    /\ calls < MaxCalls
    /\ \E node \in Nodes : \E order \in TaskOrders(ni.Tasks) :
         Completed(SetNode(ni, node, order), Call("SetNode", NoTask, node, "nil"))
    /\ UNCHANGED <<pipelined, qmVars, heapVars, dcall>>

DoAddTask ==
    /\ calls < MaxCalls
    /\ \E task \in TaskInputs :
         LET r == AddTask(ni, task)
         IN Completed(r.ni, Call("AddTask", task, NilNode, r.err))
    /\ UNCHANGED <<pipelined, qmVars, heapVars, dcall>>

DoPipelineTask ==
    /\ calls < MaxCalls
    /\ \E task \in TaskInputs :
         LET r == PipelineTask(ni, task)
         IN Completed(r.ni, Call("PipelineTask", task, NilNode, r.err))
    /\ pipelined' = TRUE
    /\ UNCHANGED <<qmVars, heapVars, dcall>>

DoRemoveTask ==
    /\ calls < MaxCalls
    /\ \E task \in TaskInputs :
         LET r == RemoveTask(ni, task)
         IN Completed(r.ni, Call("RemoveTask", task, NilNode, r.err))
    /\ UNCHANGED <<pipelined, qmVars, heapVars, dcall>>

DoUpdateTask ==
    /\ calls < MaxCalls
    /\ \E task \in TaskInputs :
         LET r == UpdateTask(ni, task)
         IN Completed(r.ni, Call("UpdateTask", task, NilNode, r.err))
    /\ UNCHANGED <<pipelined, qmVars, heapVars, dcall>>

Next ==
    \/ DoSetNode
    \/ DoAddTask
    \/ DoPipelineTask
    \/ DoRemoveTask
    \/ DoUpdateTask

----------------------------------------------------------------------------
\* The ledger's objects on the heap: two handles on NodeInfo objects (the
\* original and what Clone returned) and the caller's TaskInfo objects, so
\* that two references to one object are told from two equal objects.

OrigCell == <<"ledger", "orig">>

CloneCell == <<"ledger", "clone">>

NoCell == <<"none", "">>

Handles == {"orig", "clone"}

CallerRefs == {CallerRef(id) : id \in TaskIDs}

\* The NodeInfo at address c with its task map read through to the TaskInfo
\* objects.
Deref(h, c) ==
    [h.cells[c] EXCEPT
       !.Tasks = [k \in DOMAIN h.cells[c].Tasks |-> h.objs[h.cells[c].Tasks[k]]]]

\* The address of the TaskInfo object ti held under key k by the NodeInfo at
\* c: a new object gets an address of its own.
Address(c, k, ti) == IF ti.Ref = NewRef THEN <<c[2], k>> ELSE ti.Ref

Addresses(c, n) == [k \in DOMAIN n.Tasks |-> Address(c, k, n.Tasks[k])]

Placed(h, c, n) ==
    [x \in (DOMAIN h.cells) \cup {c} |->
       IF x = c THEN [n EXCEPT !.Tasks = Addresses(c, n), !.Ref = c]
       ELSE h.cells[x]]

\* The TaskInfo objects some reference still leads to.
Reachable(cells) ==
    CallerRefs \cup
    UNION { {cells[x].Tasks[k] : k \in DOMAIN cells[x].Tasks} : x \in DOMAIN cells }

Objects(h, c, n, cells) ==
    [r \in Reachable(cells) |->
       IF /\ r[1] = c[2]
          /\ r[2] \in DOMAIN n.Tasks
          /\ n.Tasks[r[2]].Ref = NewRef
       THEN [n.Tasks[r[2]] EXCEPT !.Ref = r]
       ELSE h.objs[r]]

\* The heap after the method called on the NodeInfo at c left it as n.
Store(h, c, n) ==
    [cells |-> Placed(h, c, n), clone |-> h.clone,
     objs |-> Objects(h, c, n, Placed(h, c, n))]

\* The callers' TaskInfo objects, and no NodeInfo yet.
BlankHeap(rq, st) ==
    [cells |-> [x \in {} |-> NewNodeInfo(NilNode)], clone |-> NoCell,
     objs |-> [r \in CallerRefs |->
                 [ID |-> r[2], Resreq |-> rq[r[2]], Status |-> st[r[2]],
                  Ref |-> r]]]

HeapCall(op, on, task, err, before) ==
    [op |-> op, on |-> on, task |-> task, err |-> err, before |-> before]

IdleHeap ==
    BlankHeap([id \in TaskIDs |-> Res(1, 1, 0)], [id \in TaskIDs |-> "Running"])

NoHeapCall == HeapCall("NewNodeInfo", "orig", NoTask, "nil", IdleHeap)

\* No ledger on the heap: the state of the heap while another part of the
\* program is looked at.
HeapIdle ==
    /\ heap = IdleHeap
    /\ hlast = NoHeapCall
    /\ hcalls = 0

\* The NodeInfo a handle refers to.
CellOf(on) == IF on = "orig" THEN OrigCell ELSE heap.clone

HeapCompleted(cell, r, call) ==
    /\ heap' = Store(heap, cell, r.ni)
    /\ hlast' = call
    /\ hcalls' = hcalls + 1
    /\ UNCHANGED <<nodeVars, qmVars, dcall>>

\* handle.AddTask(t), t the caller's object for some pod.
HeapAddTask ==
    /\ hcalls < MaxHeapCalls
    /\ \E on \in Handles : \E id \in TaskIDs :
         /\ CellOf(on) # NoCell
         /\ \E r \in {AddTask(Deref(heap, CellOf(on)), heap.objs[CallerRef(id)])} :
              HeapCompleted(CellOf(on), r,
                  HeapCall("AddTask", on, heap.objs[CallerRef(id)], r.err, heap))

\* handle.PipelineTask(t).
HeapPipelineTask ==
    /\ hcalls < MaxHeapCalls
    /\ \E on \in Handles : \E id \in TaskIDs :
         /\ CellOf(on) # NoCell
         /\ \E r \in {PipelineTask(Deref(heap, CellOf(on)), heap.objs[CallerRef(id)])} :
              HeapCompleted(CellOf(on), r,
                  HeapCall("PipelineTask", on, heap.objs[CallerRef(id)], r.err, heap))

\* handle.RemoveTask(t).
HeapRemoveTask ==
    /\ hcalls < MaxHeapCalls
    /\ \E on \in Handles : \E id \in TaskIDs :
         /\ CellOf(on) # NoCell
         /\ \E r \in {RemoveTask(Deref(heap, CellOf(on)), heap.objs[CallerRef(id)])} :
              HeapCompleted(CellOf(on), r,
                  HeapCall("RemoveTask", on, heap.objs[CallerRef(id)], r.err, heap))

\* The heap once Clone has handed back res.
Cloned(h, res) ==
    IF res.Ref = NewRef
    THEN [Store(h, CloneCell, res) EXCEPT !.clone = CloneCell]
    ELSE [h EXCEPT !.clone = res.Ref]

\* clone := ni.Clone()
HeapClone ==
    /\ hcalls < MaxHeapCalls
    /\ heap.clone = NoCell
    /\ \E order \in TaskOrders(heap.cells[OrigCell].Tasks) :
         heap' = Cloned(heap, Clone(Deref(heap, OrigCell), order))
    /\ hlast' = HeapCall("Clone", "orig", NoTask, "nil", heap)
    /\ hcalls' = hcalls + 1
    /\ UNCHANGED <<nodeVars, qmVars, dcall>>

\* The caller changes the status or the request of one of its own TaskInfo
\* objects.
CallerChanges ==
    /\ hcalls < MaxHeapCalls
    /\ \E task \in TaskInputs :
         /\ heap.objs[task.Ref] # task
         /\ heap' = [heap EXCEPT !.objs[task.Ref] = task]
         /\ hlast' = HeapCall("CallerChanges", "caller", task, "nil", heap)
    /\ hcalls' = hcalls + 1
    /\ UNCHANGED <<nodeVars, qmVars, dcall>>

NextHeap ==
    \/ HeapAddTask
    \/ HeapPipelineTask
    \/ HeapRemoveTask
    \/ HeapClone
    \/ CallerChanges

----------------------------------------------------------------------------
\* The quota manager as a state machine: NewQuotaManager step by step, then
\* one action per Fits or Release call, and the collaborators' own moves.

\* The zero QuotaManager{}: no backend, no resource plan manager.
ZeroQuotaManager ==
    [quotaManagerBackend |-> "nil", preemptionEnabled |-> FALSE,
     initializationDone |-> FALSE]

NoBackend == [mode |-> "Normal", treeNames |-> <<>>, consumers |-> {}]

DispatchedIds == {"ns/j1", "ns/j2"}

\* The AppWrapper of AWInputs with this id.
AWOf(id) == CHOOSE aw \in AWInputs : CreateId(aw.Namespace, aw.Name) = id

\* The arguments of NewQuotaManager: the demands of the dispatched
\* AppWrappers and the dispatched AppWrappers themselves, by id; an entry of
\* the second map may be missing or not be runnable.
ArgChoices ==
    { [dispatchedAWDemands |-> [k \in D |-> Res(2000, 2500000, 1)],
       dispatchedAWs |-> [k \in A |-> [AWOf(k) EXCEPT !.CanRun = (k \in R)]]] :
        D \in {{}, DispatchedIds},
        A \in {DispatchedIds},
        R \in {DispatchedIds, {"ns/j1"}} }
    \cup
    { [dispatchedAWDemands |-> [k \in DispatchedIds |-> Res(2000, 2500000, 1)],
       dispatchedAWs |-> [k \in {"ns/j1"} |-> AWOf(k)]] }

NoArgs ==
    [dispatchedAWDemands |-> [k \in {} |-> EmptyResource],
     dispatchedAWs |-> [k \in {} |-> NoAW]]

\* getDispatchedAppWrapper without the test of Status.CanRun.
getDispatchedAppWrapperAnyStatus(dispatchedAWs, awId) ==
    IF awId \in DOMAIN dispatchedAWs THEN dispatchedAWs[awId] ELSE NoAW

\* getDispatchedAppWrapper(dispatchedAWs, awId): nil is NoAW.
getDispatchedAppWrapper(dispatchedAWs, awId) ==
    IF awId \in DOMAIN dispatchedAWs /\ dispatchedAWs[awId].CanRun
    THEN dispatchedAWs[awId]
    ELSE NoAW

NoInitErr == [err |-> <<>>, err2 |-> <<>>, returned |-> <<>>]

\* An error of the initialization: what failed, for which AppWrapper.
InitError(kind, awId) == [kind |-> kind, aw |-> awId]

\* What a call started from.
Pre ==
    [initializationDone |-> qm.initializationDone, mode |-> be.mode,
     consumers |-> be.consumers]

NoCall ==
    [op |-> "none", aw |-> NoAW, demand |-> EmptyResource, replay |-> FALSE, path |-> "",
     doesFit |-> FALSE, preemptIds |-> <<>>, msg |-> NoMsg, trace |-> <<>>,
     consumer |-> NoRequest, alloc |-> NoAlloc, log |-> NoLog,
     released |-> FALSE, dealloc |-> FALSE, remove |-> NoRemove,
     pre |-> [initializationDone |-> FALSE, mode |-> "Normal",
              consumers |-> {}]]

FitsCall(aw, awResDemands, r, replay) ==
    [NoCall EXCEPT !.op = "Fits", !.aw = aw, !.demand = awResDemands,
                   !.replay = replay, !.path = r.path,
                   !.doesFit = r.doesFit, !.preemptIds = r.preemptIds,
                   !.msg = r.msg, !.trace = r.trace, !.consumer = r.consumer,
                   !.alloc = r.alloc, !.log = r.log, !.pre = Pre]

ReleaseCall(aw, r) ==
    [NoCall EXCEPT !.op = "Release", !.aw = aw, !.path = r.path,
                   !.released = r.released, !.trace = r.trace,
                   !.dealloc = r.dealloc, !.remove = r.remove, !.pre = Pre]

NodeIdle ==
    /\ ni = NewNodeInfo(NilNode)
    /\ subClamps = TRUE
    /\ last = Call("NewNodeInfo", NoTask, NilNode, "nil")
    /\ prev = ni
    /\ pipelined = FALSE
    /\ calls = 0

QMIdle ==
    /\ qm = ZeroQuotaManager
    /\ be = NoBackend
    /\ resplanChanged = FALSE
    /\ pc = "ready"
    /\ args = NoArgs
    /\ pending = {}
    /\ initErr = NoInitErr
    /\ replayLog = <<>>
    /\ qlast = NoCall

\* NewQuotaManager up to the forest refresh (quota management enabled), or
\* a QuotaManager that was never given a backend.
InitQM ==
    /\ \/ QMIdle
       \/ /\ \E p \in BOOLEAN :
               qm = [quotaManagerBackend |-> "manager", preemptionEnabled |-> p,
                     initializationDone |-> FALSE]
          /\ \E mode \in Modes :
               be = [mode |-> mode, treeNames |-> <<>>, consumers |-> {}]
          /\ resplanChanged = FALSE
          /\ pc = "updateForest"
          /\ args \in ArgChoices
          /\ pending = DOMAIN args.dispatchedAWDemands
          /\ initErr = NoInitErr
          /\ replayLog = <<>>
          /\ qlast = NoCall
    /\ arch = "amd64"
    /\ NodeIdle
    /\ HeapIdle
    /\ DemandsIdle

\* The answers Fits(aw, awResDemands) asks its collaborators for, from
\* here: GetTreeNames changes only with an UpdateForest, NewConsumerInfo is
\* called once the designation is complete, AllocateForest once there is a
\* consumer.
FitsEnvsNow(aw, awResDemands) ==
    LET unasked == [newTrees |-> be.treeNames, consumerErr |-> FALSE,
                    alloc |-> NoAlloc]
    IN IF FitsGuard # "proceed" THEN {unasked}
       ELSE UNION {
              IF buildRequest(aw, awResDemands, trees, FALSE).err # NoMsg
              THEN { [unasked EXCEPT !.newTrees = trees] }
              ELSE { [unasked EXCEPT !.newTrees = trees, !.consumerErr = TRUE] }
                   \cup { [newTrees |-> trees, consumerErr |-> FALSE, alloc |-> a] :
                            a \in AllocOutcomes }
              : trees \in IF resplanChanged THEN TreeNameChoices
                          ELSE {be.treeNames} }

\* NewQuotaManager: err := qm.updateForestFromCache().
NQMUpdateForest ==
    /\ pc = "updateForest"
    /\ \E newTrees \in TreeNameChoices, updErr \in BOOLEAN :
         /\ be' = [be EXCEPT !.treeNames = newTrees]
         /\ initErr' = [initErr EXCEPT
                          !.err = IF updErr
                                  THEN <<InitError("UpdateForest", "")>>
                                  ELSE <<>>]
    /\ pc' = "load"
    /\ UNCHANGED <<qm, resplanChanged, args, pending, replayLog, qlast, arch, nodeVars, heapVars, dcall>>

\* err of loadDispatchedAWs after the iteration for aw that had result r.
LoadErrAfter(err, aw, r) ==
    LET awId == CreateId(aw.Namespace, aw.Name)
        failed == IF r.doesFit = FALSE
                  THEN <<InitError("LoadFailed", awId)>>
                  ELSE err
    IN IF Len(r.preemptIds) > 0
       THEN failed \o <<InitError("InvalidPreemptions", awId)>>
       ELSE failed

\* loadDispatchedAWs: one iteration of the loop over dispatchedAWDemands.
NQMLoad ==
    /\ pc = "load"
    /\ \E k \in pending :
         LET aw == getDispatchedAppWrapper(args.dispatchedAWs, k)
         IN /\ pending' = pending \ {k}
            /\ IF aw # NoAW
               THEN \E env \in FitsEnvsNow(aw, args.dispatchedAWDemands[k]) :
                    \E r \in {Fits(aw, args.dispatchedAWDemands[k], env)} :
                         /\ be' = r.be
                         /\ resplanChanged' = r.resplanChanged
                         /\ qlast' = FitsCall(aw, args.dispatchedAWDemands[k], r, TRUE)
                         /\ initErr' = [initErr EXCEPT
                                          !.err2 = LoadErrAfter(@, aw, r)]
                         /\ replayLog' = Append(replayLog,
                                [key |-> k,
                                 initializationDone |-> qm.initializationDone,
                                 doesFit |-> r.doesFit,
                                 preempted |-> Len(r.preemptIds) > 0])
               ELSE UNCHANGED <<be, resplanChanged, qlast, initErr, replayLog>>
    /\ UNCHANGED <<qm, pc, args, arch, nodeVars, heapVars, dcall>>

\* NewQuotaManager returning early when the load reported an error: the
\* mode is not set and the initialization is not recorded as done.
NQMFinishStopsOnError ==
    /\ pc = "load"
    /\ pending = {}
    /\ initErr' = [initErr EXCEPT
                     !.returned = IF initErr.err2 # <<>>
                                  THEN initErr.err \o initErr.err2
                                  ELSE initErr.err]
    /\ be' = IF initErr.err2 # <<>> THEN be ELSE [be EXCEPT !.mode = "Normal"]
    /\ qm' = IF initErr.err2 # <<>> THEN qm
             ELSE [qm EXCEPT !.initializationDone = TRUE]
    /\ pc' = "return"
    /\ UNCHANGED <<resplanChanged, args, pending, replayLog, qlast, arch, nodeVars, heapVars, dcall>>

\* NewQuotaManager from the return of loadDispatchedAWs to its return
\* statement: (qm, err) is on its way to the caller.
NQMFinish ==
    /\ pc = "load"
    /\ pending = {}
    /\ initErr' = [initErr EXCEPT
                     !.returned = IF initErr.err2 # <<>>
                                  THEN initErr.err \o initErr.err2
                                  ELSE initErr.err]
    /\ be' = [be EXCEPT !.mode = "Normal"]
    /\ qm' = [qm EXCEPT !.initializationDone = TRUE]
    /\ pc' = "return"
    /\ UNCHANGED <<resplanChanged, args, pending, replayLog, qlast, arch, nodeVars, heapVars, dcall>>

\* NewQuotaManager has returned: its arguments and locals are gone, the
\* QuotaManager is the caller's to use.
NQMReturn ==
    /\ pc = "return"
    /\ pc' = "ready"
    /\ args' = NoArgs
    /\ initErr' = NoInitErr
    /\ replayLog' = <<>>
    /\ UNCHANGED <<qm, be, resplanChanged, pending, qlast, arch, nodeVars, heapVars, dcall>>

\* A Fits call by the dispatcher with a demand out of demands.
DoFitsWith(demands) ==
    /\ pc = "ready"
    /\ \E aw \in AWInputs, awResDemands \in demands :
       \E env \in FitsEnvsNow(aw, awResDemands) :
       \E r \in {Fits(aw, awResDemands, env)} :
            /\ be' = r.be
            /\ resplanChanged' = r.resplanChanged
            /\ qlast' = FitsCall(aw, awResDemands, r, FALSE)
    /\ UNCHANGED <<qm, pc, args, pending, initErr, replayLog, arch, nodeVars, heapVars, dcall>>

\* A Fits call by the dispatcher with an everyday demand.
DoFits == DoFitsWith({Res(2000, 2500000, 1)})

DoRelease ==
    /\ pc = "ready"
    /\ \E aw \in AWInputs, env \in ReleaseEnvs :
       \E r \in {Release(aw, env)} :
            /\ be' = r.be
            /\ qlast' = ReleaseCall(aw, r)
    /\ UNCHANGED <<qm, resplanChanged, pc, args, pending, initErr, replayLog, arch, nodeVars, heapVars, dcall>>

\* The backend enters or leaves maintenance mode on its own.
BackendChangesMode ==
    /\ qm.quotaManagerBackend # "nil"
    /\ \E mode \in Modes \ {be.mode} : be' = [be EXCEPT !.mode = mode]
    /\ UNCHANGED <<qm, resplanChanged, pc, args, pending, initErr, replayLog, qlast, arch, nodeVars, heapVars, dcall>>

\* A resource plan is added, changed or deleted.
ResourcePlansChange ==
    /\ qm.quotaManagerBackend # "nil"
    /\ ~resplanChanged
    /\ resplanChanged' = TRUE
    /\ UNCHANGED <<qm, be, pc, args, pending, initErr, replayLog, qlast, arch, nodeVars, heapVars, dcall>>

NextQM ==
    \/ NQMUpdateForest
    \/ NQMLoad
    \/ NQMFinish
    \/ NQMReturn
    \/ DoFits
    \/ DoRelease
    \/ BackendChangesMode
    \/ ResourcePlansChange

SpecQM == InitQM /\ [][NextQM]_vars

\* NewQuotaManager on its own, while the backend changes mode and the
\* resource plans change.  NewQuotaManager is one function running on one
\* goroutine: a step of it that can be taken is taken.
NextInit ==
    \/ NQMUpdateForest
    \/ NQMLoad
    \/ NQMFinish
    \/ NQMReturn
    \/ BackendChangesMode
    \/ ResourcePlansChange

SpecInit ==
    /\ InitQM
    /\ [][NextInit]_vars
    /\ WF_vars(NQMUpdateForest)
    /\ WF_vars(NQMLoad)
    /\ WF_vars(NQMFinish)

\* The quota manager after an initialization without dispatched jobs, on
\* any platform, asked to admit jobs with everyday and with extreme demands.
InitConv ==
    /\ \E p \in BOOLEAN :
         qm = [quotaManagerBackend |-> "manager", preemptionEnabled |-> p,
               initializationDone |-> TRUE]
    /\ be = [mode |-> "Normal", treeNames |-> <<"A", "B">>, consumers |-> {}]
    /\ resplanChanged = FALSE
    /\ pc = "ready"
    /\ args = NoArgs
    /\ pending = {}
    /\ initErr = NoInitErr
    /\ replayLog = <<>>
    /\ qlast = NoCall
    /\ arch \in Archs
    /\ NodeIdle
    /\ HeapIdle
    /\ DemandsIdle

DoFitsAnyDemand == DoFitsWith(DemandInputs)

NextConv ==
    \/ DoFitsAnyDemand
    \/ DoRelease

SpecConv == InitConv /\ [][NextConv]_vars

\* ni := NewNodeInfo(node), and the caller's tasks as they are then.
InitHeap ==
    /\ \E node \in Nodes \cup {NilNode} :
       \E rq \in [TaskIDs -> Requests] : \E st \in [TaskIDs -> Statuses] :
         /\ heap = Store(BlankHeap(rq, st), OrigCell, NewNodeInfo(node))
         /\ hlast = HeapCall("NewNodeInfo", "orig", NoTask, "nil", BlankHeap(rq, st))
    /\ hcalls = 0
    /\ subClamps \in BOOLEAN
    /\ ni = NewNodeInfo(NilNode)
    /\ last = Call("NewNodeInfo", NoTask, NilNode, "nil")
    /\ prev = ni
    /\ pipelined = FALSE
    /\ calls = 0
    /\ QMIdle
    /\ arch = "amd64"
    /\ DemandsIdle

SpecHeap == InitHeap /\ [][NextHeap]_vars

\* getQuotaTreeResourceTypesDemands is called with a demand and a list of
\* resource types.
InitDemands ==
    /\ \E d \in DemandInputs : \E tt \in TypeLists :
         dcall = [awResDemands |-> d, treeToResourceTypes |-> tt,
                  returned |-> FALSE, result |-> NoDemands]
    /\ arch = "amd64"
    /\ QMIdle
    /\ NodeIdle
    /\ HeapIdle

SpecDemands == InitDemands /\ [][NextDemands]_vars

\* The ledger alone: the quota manager stays as constructed.
Init == InitNode /\ QMIdle /\ arch = "amd64" /\ HeapIdle /\ DemandsIdle

Spec == Init /\ [][Next]_vars

----------------------------------------------------------------------------
\* Properties of the ledger.

Bound == ni.Node # NilNode

\* C1: on a bound ledger Idle + Used = Allocatable after every completed
\* AddTask, RemoveTask, UpdateTask and SetNode call, for any sequence of
\* those calls.
ConservationC1 ==
    (Bound /\ ~pipelined) => Add(ni.Idle, ni.Used) = ni.Allocatable

\* C2: AddTask(t) for an untracked t followed by RemoveTask(t) restores
\* Idle, Used, Releasing and the task map to what they were before the
\* AddTask.
RoundTripC2 ==
    [][ ( /\ last.op = "AddTask" /\ last.err = "nil"
          /\ last'.op = "RemoveTask" /\ last'.task = last.task )
        => ( /\ ni'.Idle = prev.Idle
             /\ ni'.Used = prev.Used
             /\ ni'.Releasing = prev.Releasing
             /\ ni'.Tasks = prev.Tasks ) ]_vars

\* C3: AddTask and PipelineTask with an ID already in the ledger return
\* DuplicateTask and leave the whole ledger, the stored record included, as
\* it was.
DuplicateRejectedC3 ==
    (last.op \in {"AddTask", "PipelineTask"} /\ last.task.ID \in DOMAIN prev.Tasks)
    => (last.err = "DuplicateTask" /\ ni = prev)

\* A duplicate AddTask on a bound ledger whose argument differs from the
\* stored record.
DuplicateWitnessC3 ==
    /\ last.op = "AddTask"
    /\ last.err = "DuplicateTask"
    /\ Bound
    /\ prev.Tasks[last.task.ID].Resreq # last.task.Resreq
    /\ prev.Tasks[last.task.ID].Status # last.task.Status

\* C4: RemoveTask with an ID the ledger does not track returns TaskNotFound
\* and leaves the whole ledger as it was, bound or unbound.
NotFoundC4 ==
    (last.op = "RemoveTask" /\ last.task.ID \notin DOMAIN prev.Tasks)
    => (last.err = "TaskNotFound" /\ ni = prev)

\* A RemoveTask of an unknown ID on a bound ledger that tracks another,
\* releasing, task.
NotFoundWitnessC4 ==
    /\ last.op = "RemoveTask"
    /\ last.err = "TaskNotFound"
    /\ Bound
    /\ \E k \in DOMAIN ni.Tasks : ni.Tasks[k].Status = "Releasing"

\* C5: PipelineTask never changes Idle (nor Allocatable).  A successful call
\* on a bound ledger takes the request out of Releasing (Resource.Sub) and
\* adds it to Used; on an unbound ledger no pool changes.
PipelineFrameC5 ==
    last.op = "PipelineTask"
    => /\ ni.Idle = prev.Idle
       /\ ni.Allocatable = prev.Allocatable
       /\ (last.err = "nil" /\ prev.Node # NilNode)
            => /\ ni.Used = Add(prev.Used, last.task.Resreq)
               /\ ni.Releasing = Sub(prev.Releasing, last.task.Resreq)
       /\ (last.err = "nil" /\ prev.Node = NilNode)
            => /\ ni.Used = prev.Used
               /\ ni.Releasing = prev.Releasing

\* A successful PipelineTask on a bound ledger that took a request out of a
\* non-empty Releasing pool.
PipelineWitnessC5 ==
    /\ last.op = "PipelineTask"
    /\ last.err = "nil"
    /\ Bound
    /\ prev.Releasing # EmptyResource
    /\ ni.Releasing # prev.Releasing
    /\ ni.Idle # EmptyResource

----------------------------------------------------------------------------
\* Properties of the quota manager.

MaintenanceMsg == Msg("Quota Manager backend in maintenance mode", <<>>)

NoBackendMsg == Msg("No quota manager backend exists", <<>>)

HasBackend == qm.quotaManagerBackend # "nil"

Called(trace, name) == \E i \in DOMAIN trace : trace[i] = name

\* C6: Fits denies with the maintenance-mode message, registering no
\* consumer and requesting no allocation, exactly when the backend is in
\* Maintenance mode and the initialization is complete; a call made before
\* that is not denied for the mode and goes on to the backend.
MaintenanceGateC6 ==
    (qlast.op = "Fits" /\ HasBackend)
    => /\ (qlast.msg = MaintenanceMsg)
            <=> (qlast.pre.mode = "Maintenance" /\ qlast.pre.initializationDone)
       /\ (qlast.msg = MaintenanceMsg)
            => /\ ~qlast.doesFit
               /\ qlast.preemptIds = <<>>
               /\ ~Called(qlast.trace, "AddConsumer")
               /\ ~Called(qlast.trace, "AllocateForest")
               /\ be.consumers = qlast.pre.consumers
       /\ (qlast.pre.mode = "Maintenance" /\ ~qlast.pre.initializationDone)
            => /\ Called(qlast.trace, "IsResplanChanged")
               /\ qlast.path \in {"buildFailed", "allocError", "allocResponse"}
               /\ qlast.path # "buildFailed"
                    => /\ Called(qlast.trace, "AddConsumer")
                       /\ Called(qlast.trace, "AllocateForest")

\* A replayed job admitted by the backend while it was in Maintenance mode,
\* before the initialization was complete.
MaintenanceWitnessC6 ==
    /\ qlast.op = "Fits"
    /\ qlast.replay
    /\ qlast.pre.mode = "Maintenance"
    /\ ~qlast.pre.initializationDone
    /\ qlast.doesFit
    /\ Called(qlast.trace, "AllocateForest")

\* C7: Fits returns fits = true only if this call asked the backend to
\* allocate the job's consumer, got no error and was told the consumer is
\* allocated; every other path returns false.
FailsClosedC7 ==
    qlast.op = "Fits"
    => /\ qlast.doesFit
            => /\ Called(qlast.trace, "AllocateForest")
               /\ qlast.consumer.ID = CreateId(qlast.aw.Namespace, qlast.aw.Name)
               /\ qlast.consumer.ID \in be.consumers
               /\ ~qlast.alloc.err
               /\ qlast.alloc.allocated
       /\ qlast.path \in {"noBackend", "maintenance", "buildFailed", "allocError"}
            => ~qlast.doesFit
       /\ (qlast.path = "allocResponse" /\ ~qlast.alloc.allocated)
            => ~qlast.doesFit

\* A call that reached the backend and was denied because the backend
\* returned an error together with a response.
FailsClosedWitnessC7 ==
    /\ qlast.op = "Fits"
    /\ qlast.path = "allocError"
    /\ qlast.alloc.err
    /\ qlast.alloc.response
    /\ ~qlast.doesFit

\* C8: without a backend Fits returns (false, nil, "No quota manager backend
\* exists") for any job and demand and makes no backend or resource plan
\* call.
NoBackendC8 ==
    (qlast.op = "Fits" /\ ~HasBackend)
    => /\ ~qlast.doesFit
       /\ qlast.preemptIds = <<>>
       /\ qlast.msg = NoBackendMsg
       /\ qlast.trace = <<>>
       /\ be = NoBackend
       /\ ~resplanChanged

\* Fits without a backend for a job with a complete id.
NoBackendWitnessC8 ==
    /\ qlast.op = "Fits"
    /\ ~HasBackend
    /\ qlast.msg = NoBackendMsg
    /\ CreateId(qlast.aw.Namespace, qlast.aw.Name) # ""

\* C9: with a backend and a job whose id can be formed, Release always
\* calls DeAllocateForest and then RemoveConsumer, and returns the result
\* of DeAllocateForest whatever RemoveConsumer answers.
ReleaseBothStepsC9 ==
    (qlast.op = "Release" /\ HasBackend
       /\ CreateId(qlast.aw.Namespace, qlast.aw.Name) # "")
    => /\ qlast.trace = <<"DeAllocateForest", "RemoveConsumer">>
       /\ qlast.released = qlast.dealloc

\* Release of a job that was never registered: the deallocation failed,
\* RemoveConsumer reported success, and Release returned false.
ReleaseWitnessC9 ==
    /\ qlast.op = "Release"
    /\ HasBackend
    /\ CreateId(qlast.aw.Namespace, qlast.aw.Name) \notin qlast.pre.consumers
    /\ qlast.trace = <<"DeAllocateForest", "RemoveConsumer">>
    /\ ~qlast.dealloc
    /\ qlast.remove.success
    /\ ~qlast.released

\* C10: in Maintenance mode after the initialization Release still calls
\* DeAllocateForest and RemoveConsumer and returns the deallocation's
\* result, while Fits from the same state is denied.
ReleaseNotGatedC10 ==
    (HasBackend /\ qlast.pre.mode = "Maintenance" /\ qlast.pre.initializationDone)
    => /\ (qlast.op = "Release" /\ CreateId(qlast.aw.Namespace, qlast.aw.Name) # "")
            => /\ Called(qlast.trace, "DeAllocateForest")
               /\ Called(qlast.trace, "RemoveConsumer")
               /\ qlast.released = qlast.dealloc
       /\ qlast.op = "Fits"
            => (qlast.path = "maintenance" /\ ~qlast.doesFit)

\* A Release in Maintenance mode that deallocated the job and removed its
\* consumer.
ReleaseNotGatedWitnessC10 ==
    /\ qlast.op = "Release"
    /\ qlast.pre.mode = "Maintenance"
    /\ qlast.pre.initializationDone
    /\ qlast.released
    /\ qlast.remove.success
    /\ CreateId(qlast.aw.Namespace, qlast.aw.Name) \in qlast.pre.consumers
    /\ CreateId(qlast.aw.Namespace, qlast.aw.Name) \notin be.consumers

\* C11: a Fits call that reaches getQuotaDesignation fails there exactly when
\* the job has no label for some known tree; the message then names the
\* known trees without a label, each once and no other, and Fits denies with
\* that message without registering a consumer.  (be.treeNames is the list
\* GetTreeNames returned to the last Fits call.)
DesignationC11 ==
    (qlast.op = "Fits" /\ Called(qlast.trace, "GetTreeNames"))
    => LET missing == Range(be.treeNames) \ DOMAIN qlast.aw.Labels
           failed == qlast.msg.text = "Missing required quota designation: "
       IN /\ failed <=> missing # {}
          /\ failed => /\ Range(qlast.msg.names) = missing
                       /\ Len(qlast.msg.names) = Cardinality(missing)
                       /\ ~qlast.doesFit
                       /\ qlast.preemptIds = <<>>
                       /\ ~Called(qlast.trace, "AddConsumer")
                       /\ ~Called(qlast.trace, "AllocateForest")
                       /\ be.consumers = qlast.pre.consumers

\* The job labelled for tree A alone, denied with a message that names B,
\* the other known tree.
DesignationWitnessC11 ==
    /\ qlast.op = "Fits"
    /\ be.treeNames = <<"A", "B">>
    /\ DOMAIN qlast.aw.Labels = {"A"}
    /\ qlast.msg = Msg("Missing required quota designation: ", <<"B">>)
    /\ ~qlast.doesFit

\* C12: when NewQuotaManager returns, the error it returns records every
\* replayed job that did not fit and every replayed job that came back with
\* a non-empty preemption list, not only the last or the first of them.
AggregatedC12 ==
    pc = "return"
    => \A i \in DOMAIN replayLog :
         /\ ~replayLog[i].doesFit
              => \E e \in Range(initErr.returned) :
                   e.kind = "LoadFailed" /\ e.aw = replayLog[i].key
         /\ replayLog[i].preempted
              => \E e \in Range(initErr.returned) :
                   e.kind = "InvalidPreemptions" /\ e.aw = replayLog[i].key

\* The demand of a job for a resource type of the modelled trees.
DemandFor(awResDemands, treeResourceType) ==
    IF treeResourceType = <<"C", "P", "U">> THEN awResDemands.MilliCPU
    ELSE IF treeResourceType = <<"g", "p", "u">> THEN awResDemands.GPU
    ELSE awResDemands.Memory \div 1000000

\* The errors logged for tree k hold an overflow diagnostic for this type.
OverflowLogged(k, treeResourceType) ==
    \E i \in DOMAIN qlast.log[k] :
      qlast.log[k][i] = Diagnostic("overflow", <<treeResourceType>>)

\* C13: in every request Fits built and submitted, a demand above MaxInt
\* is replaced by MaxInt and an overflow diagnostic is reported for its
\* resource type; a demand at or below MaxInt is submitted as it is, with no
\* diagnostic.
ClampC13 ==
    (qlast.op = "Fits" /\ qlast.consumer # NoRequest)
    => \A k \in DOMAIN qlast.consumer.Trees :
       \A t \in DOMAIN qlast.consumer.Trees[k].Request :
         IF DemandFor(qlast.demand, t) > MaxInt(arch)
         THEN /\ qlast.consumer.Trees[k].Request[t] = MaxInt(arch)
              /\ OverflowLogged(k, t)
         ELSE /\ qlast.consumer.Trees[k].Request[t] = DemandFor(qlast.demand, t)
              /\ ~OverflowLogged(k, t)

\* l <= r in every dimension.
LessEqual(l, r) ==
    /\ l.MilliCPU <= r.MilliCPU
    /\ l.Memory <= r.Memory
    /\ l.GPU <= r.GPU

\* C14: on a bound ledger Releasing <= Used in every dimension, in every
\* state reached by AddTask, PipelineTask, RemoveTask, UpdateTask and
\* SetNode calls.
ReleasingWithinUsedC14 ==
    Bound => LessEqual(ni.Releasing, ni.Used)

\* A bound ledger after the RemoveTask of a releasing task, with a Releasing
\* pool that is not empty and differs from Used.
ReleasingWitnessC14 ==
    /\ Bound
    /\ last.op = "RemoveTask"
    /\ last.err = "nil"
    /\ prev.Tasks[last.task.ID].Status = "Releasing"
    /\ ni.Releasing # EmptyResource
    /\ ni.Releasing # ni.Used

\* C15: while the ledger is unbound Idle, Used and Releasing are the zero
\* vector, whatever AddTask, PipelineTask, RemoveTask and UpdateTask calls
\* were made; such a call changes nothing but the task map.
UnboundPoolsZeroC15 ==
    /\ ~Bound => /\ ni.Idle = EmptyResource
                 /\ ni.Used = EmptyResource
                 /\ ni.Releasing = EmptyResource
    /\ (prev.Node = NilNode
          /\ last.op \in {"AddTask", "PipelineTask", "RemoveTask", "UpdateTask"})
       => [ni EXCEPT !.Tasks = prev.Tasks] = prev

\* An unbound ledger that tracks a pipelined task and a releasing task
\* after a successful call.
UnboundWitnessC15 ==
    /\ ~Bound
    /\ pipelined
    /\ last.op \in {"AddTask", "PipelineTask", "UpdateTask"}
    /\ last.err = "nil"
    /\ Cardinality(DOMAIN ni.Tasks) = 2
    /\ \E k \in DOMAIN ni.Tasks : ni.Tasks[k].Status = "Releasing"

\* C16: UpdateTask(t) on a ledger that tracks t's ID succeeds and leaves
\* the pools and the task map RemoveTask(t) followed by AddTask(t) leaves,
\* with a copy of t as the stored record; on a ledger that does not track
\* the ID it fails and leaves the ledger as it was.
UpdateEquivalenceC16 ==
    last.op = "UpdateTask"
    => IF last.task.ID \in DOMAIN prev.Tasks
       THEN /\ last.err = "nil"
            /\ ni = AddTask(RemoveTask(prev, last.task).ni, last.task).ni
            /\ ni.Tasks[last.task.ID].Resreq = last.task.Resreq
            /\ ni.Tasks[last.task.ID].Status = last.task.Status
       ELSE /\ last.err = "TaskNotFound"
            /\ ni = prev

\* An UpdateTask on a bound ledger that replaced a running record by a
\* releasing one with another request.
UpdateWitnessC16 ==
    /\ last.op = "UpdateTask"
    /\ last.err = "nil"
    /\ Bound
    /\ prev.Tasks[last.task.ID].Status = "Running"
    /\ last.task.Status = "Releasing"
    /\ prev.Tasks[last.task.ID].Resreq # last.task.Resreq
    /\ ni.Used # prev.Used
    /\ ni.Releasing # prev.Releasing

----------------------------------------------------------------------------
\* Clone and the ledger's own copies of the tasks (SpecHeap).

Pools(n) == <<n.Idle, n.Used, n.Releasing>>

\* AddTask applied to res for every task of `tasks`.
RECURSIVE Replay(_, _)
Replay(res, tasks) ==
    IF DOMAIN tasks = {} THEN res
    ELSE LET k == CHOOSE k \in DOMAIN tasks : TRUE
         IN Replay(AddTask(res, tasks[k]).ni, DeleteTask(tasks, k))

LedgerOps == {"AddTask", "RemoveTask", "PipelineTask"}

\* C17: Clone() hands back a ledger that is a new object, has the node of the
\* original and the task IDs of the original, and whose Idle, Used and
\* Releasing are those of a fresh ledger for that node after AddTask of
\* every tracked task; Clone leaves the original as it was; and afterwards
\* AddTask, RemoveTask and PipelineTask on the clone leave the original's
\* pools and task map as they were, and those on the original leave the
\* clone's.
CloneC17 ==
    /\ hlast.op = "Clone"
       => /\ heap.clone \notin {NoCell, OrigCell}
          /\ Deref(heap, heap.clone).Node = Deref(hlast.before, OrigCell).Node
          /\ DOMAIN Deref(heap, heap.clone).Tasks
               = DOMAIN Deref(hlast.before, OrigCell).Tasks
          /\ Pools(Deref(heap, heap.clone))
               = Pools(Replay(NewNodeInfo(Deref(hlast.before, OrigCell).Node),
                              Deref(hlast.before, OrigCell).Tasks))
          /\ Deref(heap, OrigCell) = Deref(hlast.before, OrigCell)
    /\ (hlast.op \in LedgerOps /\ heap.clone # NoCell /\ hlast.on = "clone")
       => Deref(heap, OrigCell) = Deref(hlast.before, OrigCell)
    /\ (hlast.op \in LedgerOps /\ heap.clone # NoCell /\ hlast.on = "orig")
       => Deref(heap, heap.clone) = Deref(hlast.before, heap.clone)

\* A bound ledger with a task was cloned, and a task has then been added to
\* the clone, which now tracks a task the original does not.
CloneWitnessC17 ==
    /\ hlast.op = "AddTask"
    /\ hlast.on = "clone"
    /\ hlast.err = "nil"
    /\ Deref(heap, OrigCell).Node # NilNode
    /\ DOMAIN Deref(heap, OrigCell).Tasks # {}
    /\ DOMAIN Deref(heap, heap.clone).Tasks # DOMAIN Deref(heap, OrigCell).Tasks
    /\ Pools(Deref(heap, heap.clone)) # Pools(Deref(heap, OrigCell))

\* The pools of a ledger n after the request of the record `stored` has been
\* given back.
GivenBack(n, stored) ==
    IF n.Node = NilNode THEN Pools(n)
    ELSE << Add(n.Idle, stored.Resreq),
            Sub(n.Used, stored.Resreq),
            IF stored.Status = "Releasing"
            THEN Sub(n.Releasing, stored.Resreq) ELSE n.Releasing >>

\* C18: the ledger keeps a copy of its own of every task: when the caller
\* changes the status or the request of a task object it passed to AddTask
\* or PipelineTask, the pools and the stored records of every ledger stay as
\* they were; and a RemoveTask that succeeds adjusts Idle, Used and
\* Releasing by the request and the status of the stored record, whatever
\* the record the caller passes says.
PrivateCopyC18 ==
    /\ hlast.op = "CallerChanges"
       => \A c \in DOMAIN heap.cells : Deref(heap, c) = Deref(hlast.before, c)
    /\ (hlast.op = "RemoveTask" /\ hlast.err = "nil")
       => /\ hlast.task.ID \in DOMAIN Deref(hlast.before, CellOf(hlast.on)).Tasks
          /\ Pools(Deref(heap, CellOf(hlast.on)))
               = GivenBack(Deref(hlast.before, CellOf(hlast.on)),
                           Deref(hlast.before, CellOf(hlast.on)).Tasks[hlast.task.ID])

\* The caller changed a task after the ledger of a node took it in, and
\* then had it removed passing the changed object: the request and the
\* status passed are not the stored ones, and the stored one was releasing.
PrivateCopyWitnessC18 ==
    /\ hlast.op = "RemoveTask"
    /\ hlast.err = "nil"
    /\ Deref(heap, CellOf(hlast.on)).Node # NilNode
    /\ hlast.before.objs[hlast.task.Ref] = hlast.task
    /\ \E stored \in {Deref(hlast.before, CellOf(hlast.on)).Tasks[hlast.task.ID]} :
         /\ stored.Resreq # hlast.task.Resreq
         /\ stored.Status = "Releasing"
         /\ hlast.task.Status = "Running"
         /\ stored.Ref # hlast.task.Ref

----------------------------------------------------------------------------
\* The first binding of a ledger (Spec).

\* The sum of the requests of the tasks of `tasks` whose status is one of
\* `statuses`.
RECURSIVE SumOf(_, _)
SumOf(tasks, statuses) ==
    IF DOMAIN tasks = {} THEN EmptyResource
    ELSE LET k == CHOOSE k \in DOMAIN tasks : TRUE
         IN IF tasks[k].Status \in statuses
            THEN Add(SumOf(DeleteTask(tasks, k), statuses), tasks[k].Resreq)
            ELSE SumOf(DeleteTask(tasks, k), statuses)

\* C19: SetNode on a ledger that had no node reconciles the tasks it already
\* tracks: afterwards Idle is the node's allocatable minus (Resource.Sub) the
\* sum of the requests of all tracked tasks, Used is that sum, Releasing is
\* the sum of the requests of the tracked tasks whose status is Releasing,
\* Allocatable and Capability are the node's declared values, and the tasks
\* tracked are the same.
ReconcileC19 ==
    (last.op = "SetNode" /\ prev.Node = NilNode)
    => /\ ni.Idle = Sub(last.node.Allocatable, SumOf(prev.Tasks, Statuses))
       /\ ni.Used = SumOf(prev.Tasks, Statuses)
       /\ ni.Releasing = SumOf(prev.Tasks, {"Releasing"})
       /\ ni.Allocatable = last.node.Allocatable
       /\ ni.Capability = last.node.Capacity
       /\ ni.Node = last.node
       /\ ni.Tasks = prev.Tasks

\* A ledger without a node that tracked a running and a releasing task, one
\* of them pipelined, has been bound to a node whose allocatable CPU is less
\* than the two tasks request together.
ReconcileWitnessC19 ==
    /\ last.op = "SetNode"
    /\ prev.Node = NilNode
    /\ pipelined
    /\ Cardinality(DOMAIN prev.Tasks) = 2
    /\ \E k \in DOMAIN prev.Tasks : prev.Tasks[k].Status = "Releasing"
    /\ \E k \in DOMAIN prev.Tasks : prev.Tasks[k].Status = "Running"
    /\ SumOf(prev.Tasks, Statuses).MilliCPU > last.node.Allocatable.MilliCPU
    /\ ni.Used # EmptyResource

----------------------------------------------------------------------------
\* The replay of the dispatched jobs by NewQuotaManager (SpecQM).

\* How many Fits calls loadDispatchedAWs has made for the key k.
Replays(k) == Cardinality({i \in DOMAIN replayLog : replayLog[i].key = k})

\* C20 as stated: when NewQuotaManager returns, every entry of
\* dispatchedAWDemands has been submitted to Fits exactly once, each time
\* before initializationDone was set, and initializationDone is set.
ReplayEveryEntryC20 ==
    pc = "return"
    => /\ qm.initializationDone
       /\ \A i \in DOMAIN replayLog : ~replayLog[i].initializationDone
       /\ \A k \in DOMAIN args.dispatchedAWDemands : Replays(k) = 1

\* C20 amended: from the start of the load loop to the return of
\* NewQuotaManager, every entry of dispatchedAWDemands the loop has visited
\* has been submitted to Fits exactly once if dispatchedAWs holds an
\* AppWrapper for its key with Status.CanRun set, and never otherwise; no
\* entry still to visit has been submitted; every submission was made before
\* initializationDone was set; initializationDone is set only once the loop
\* is over, and at the return no entry is left to visit.
ReplayRunnableC20 ==
    pc \in {"load", "return"}
    => /\ qm.initializationDone = (pc = "return")
       /\ pc = "return" => pending = {}
       /\ \A i \in DOMAIN replayLog :
            /\ ~replayLog[i].initializationDone
            /\ replayLog[i].key \in DOMAIN args.dispatchedAWDemands
       /\ \A k \in DOMAIN args.dispatchedAWDemands :
            Replays(k) = IF /\ k \notin pending
                            /\ k \in DOMAIN args.dispatchedAWs
                            /\ args.dispatchedAWs[k].CanRun
                         THEN 1 ELSE 0

\* NewQuotaManager returns after a load of two entries, one with a runnable
\* AppWrapper, which Fits was called for, and one without, which was skipped.
ReplayWitnessC20 ==
    /\ pc = "return"
    /\ Cardinality(DOMAIN args.dispatchedAWDemands) = 2
    /\ Len(replayLog) = 1
    /\ Replays("ns/j1") = 1
    /\ qlast.op = "Fits"
    /\ qlast.replay

----------------------------------------------------------------------------
\* NewQuotaManager runs to its last step (SpecInit).

\* C21: a NewQuotaManager that has started (quota management enabled)
\* reaches its return with initializationDone set, whatever errors the
\* forest refresh and the load left; the step that sets initializationDone
\* is the one that sets the backend's mode to Normal, and it is taken only
\* from the end of the load loop, with no entry left to visit; before it
\* initializationDone is false, and so it was at every Fits call of the load.
InitCompletesC21 ==
    /\ (pc = "updateForest") ~> (pc = "return" /\ qm.initializationDone)
    /\ [][qm'.initializationDone # qm.initializationDone
            => /\ pc = "load"
               /\ pending = {}
               /\ pc' = "return"
               /\ qm'.initializationDone
               /\ be'.mode = "Normal"]_vars
    /\ [][(pc # "return" /\ pc' = "return")
            => (qm'.initializationDone /\ be'.mode = "Normal")]_vars
    /\ [](pc \in {"updateForest", "load"} => ~qm.initializationDone)
    /\ [](qlast.replay => ~qlast.pre.initializationDone)

\* NewQuotaManager is at its return with initializationDone set after a
\* forest refresh that failed and a load of two jobs, the last of them
\* replayed while the backend was in maintenance mode, that left an error.
InitCompletesWitnessC21 ==
    /\ pc = "return"
    /\ qm.initializationDone
    /\ be.mode = "Normal"
    /\ initErr.err # <<>>
    /\ initErr.err2 # <<>>
    /\ Len(replayLog) = 2
    /\ qlast.replay
    /\ qlast.pre.mode = "Maintenance"

----------------------------------------------------------------------------
\* Resource types no rule matches (SpecDemands).

\* The resource type's name contains none of "cpu", "memory", "gpu",
\* whatever the case.
Unmatched(treeResourceType) ==
    /\ ~Contains(ToLower(treeResourceType), <<"c", "p", "u">>)
    /\ ~Contains(ToLower(treeResourceType), <<"m", "e", "m", "o", "r", "y">>)
    /\ ~Contains(ToLower(treeResourceType), <<"g", "p", "u">>)

\* C22: when getQuotaTreeResourceTypesDemands has returned, no resource type
\* that matches none of the three rules has an entry in the demands, and if
\* the list holds such a type the returned error carries the mismatch
\* diagnostic, for any list of declared types.
UnmatchedC22 ==
    dcall.returned
    => /\ \A t \in Range(dcall.treeToResourceTypes) :
            Unmatched(t) => t \notin DOMAIN dcall.result.demands
       /\ (\E t \in Range(dcall.treeToResourceTypes) : Unmatched(t))
            => \E i \in DOMAIN dcall.result.err :
                  dcall.result.err[i].kind = "mismatch"

----------------------------------------------------------------------------
\* The AppWrappers to preempt that Fits returns (SpecQM).

\* The id parses into a namespace and a name, both non-empty, and the lister
\* has the AppWrapper.
Resolves(id) ==
    /\ ParseId(id)[1] # ""
    /\ ParseId(id)[2] # ""
    /\ ListerGet(ParseId(id)[1], ParseId(id)[2]) # {}

\* The ids of the AppWrappers of a list.
IdsOf(aws) == [i \in DOMAIN aws |-> CreateId(aws[i].Namespace, aws[i].Name)]

\* C23: when Fits returns from an allocation the backend answered without
\* error, the AppWrappers it returns are those of the lister for the
\* preempted ids of the response that parse and resolve, one per such id and
\* in the order of the response; the ids that do not are left out, and
\* doesFit and the message are still those of the response; with no
\* preempted ids the list is nil.
VictimsC23 ==
    (qlast.op = "Fits" /\ qlast.path = "allocResponse")
    => /\ IdsOf(qlast.preemptIds)
            = SelectIn(qlast.alloc.preemptedIds,
                       { id \in Range(qlast.alloc.preemptedIds) : Resolves(id) })
       /\ \A i \in DOMAIN qlast.preemptIds : qlast.preemptIds[i] \in Listed
       /\ qlast.doesFit = qlast.alloc.allocated
       /\ qlast.msg = Msg(qlast.alloc.message, <<>>)
       /\ qlast.alloc.preemptedIds = <<>> => qlast.preemptIds = <<>>

\* Fits returned fitting with two AppWrappers to preempt, out of four ids of
\* which one did not parse and one was not in the lister.
VictimsWitnessC23 ==
    /\ qlast.op = "Fits"
    /\ qlast.path = "allocResponse"
    /\ qlast.doesFit
    /\ Len(qlast.alloc.preemptedIds) = 4
    /\ IdsOf(qlast.preemptIds) = <<"ns/j2", "ns/j1">>
    /\ \E i \in DOMAIN qlast.alloc.preemptedIds :
         ParseId(qlast.alloc.preemptedIds[i])[1] = ""
    /\ \E i \in DOMAIN qlast.alloc.preemptedIds :
         /\ ParseId(qlast.alloc.preemptedIds[i])[1] # ""
         /\ ~Resolves(qlast.alloc.preemptedIds[i])

----------------------------------------------------------------------------
\* Used is what the tracked tasks request (Spec).

\* C24: in every state of a ledger that has a node, whatever calls of
\* SetNode, AddTask, PipelineTask, RemoveTask and UpdateTask led to it, Used
\* is the sum, dimension by dimension, of the requests of the tasks in the
\* task map.
UsedIsSumC24 ==
    ni.Node # NilNode => ni.Used = SumOf(ni.Tasks, Statuses)

\* A ledger with a node holds two tasks with different requests, after a
\* PipelineTask and an UpdateTask that changed the request of a task.
UsedIsSumWitnessC24 ==
    /\ ni.Node # NilNode
    /\ last.op = "UpdateTask"
    /\ last.err = "nil"
    /\ prev.Tasks[last.task.ID].Resreq # last.task.Resreq
    /\ pipelined
    /\ Cardinality(DOMAIN ni.Tasks) = 2
    /\ \E k1, k2 \in DOMAIN ni.Tasks : ni.Tasks[k1].Resreq # ni.Tasks[k2].Resreq

----------------------------------------------------------------------------
\* SetNode on a ledger that has a node (Spec).

\* C25: SetNode on a ledger that already has a node leaves Idle, Used,
\* Releasing and the task map as they were and replaces the node, the name,
\* Allocatable, Capability, the labels, the unschedulable flag and the
\* taints by those of the node passed; and no call leaves a ledger that had
\* a node without one.
RebindFrameC25 ==
    /\ (last.op = "SetNode" /\ prev.Node # NilNode)
       => /\ ni.Idle = prev.Idle
          /\ ni.Used = prev.Used
          /\ ni.Releasing = prev.Releasing
          /\ ni.Tasks = prev.Tasks
          /\ ni = [prev EXCEPT !.Name = last.node.Name,
                                !.Node = last.node,
                                !.Allocatable = last.node.Allocatable,
                                !.Capability = last.node.Capacity,
                                !.Labels = last.node.Labels,
                                !.Unschedulable = last.node.Unschedulable,
                                !.Taints = last.node.Taints]
    /\ prev.Node # NilNode => ni.Node # NilNode

\* A ledger with a node and a task has been given the node again, now
\* smaller, cordoned and tainted.
RebindWitnessC25 ==
    /\ last.op = "SetNode"
    /\ prev.Node # NilNode
    /\ prev.Tasks # NoTasks
    /\ prev.Used # EmptyResource
    /\ ni.Allocatable # prev.Allocatable
    /\ ni.Unschedulable # prev.Unschedulable
    /\ ni.Taints # prev.Taints

----------------------------------------------------------------------------
\* The consumers Fits registers stay registered (SpecQM).

\* The Fits call got as far as AddConsumer.
ReachedBackend == qlast.path \in {"allocError", "allocResponse"}

\* C26: a Fits call that reached the backend leaves the job's consumer
\* registered, also when the job is denied by an error of the backend or by
\* a response that is not allocated, and takes no consumer out; a Fits call
\* that returned earlier (no backend, maintenance mode, no request built)
\* leaves the registered consumers as they were; and a consumer leaves the
\* backend only in a Release call for its job.
ConsumerStaysC26 ==
    /\ [](qlast.op = "Fits"
           => IF ReachedBackend
              THEN be.consumers = qlast.pre.consumers \cup {qlast.consumer.ID}
              ELSE /\ be.consumers = qlast.pre.consumers
                   /\ qlast.consumer = NoRequest
                   /\ ~qlast.doesFit)
    /\ [][\A id \in be.consumers \ be'.consumers :
             /\ qlast'.op = "Release"
             /\ qlast'.path = "released"
             /\ CreateId(qlast'.aw.Namespace, qlast'.aw.Name) = id]_vars

\* Fits registered a consumer for a job that had none and the backend
\* answered that the job is not allocated: the consumer is still there.
ConsumerStaysWitnessC26 ==
    /\ qlast.op = "Fits"
    /\ qlast.path = "allocResponse"
    /\ ~qlast.doesFit
    /\ qlast.consumer.ID \notin qlast.pre.consumers
    /\ qlast.consumer.ID \in be.consumers
    /\ qlast.pre.consumers # {}


====
